---- MODULE Spec2Model ----
(***************************************************************************)
(* The Daedalus app catalog (skills/daedalus-miniapp/scripts/              *)
(* update-catalog.py): one JSON document {"apps": [...]} kept as a single  *)
(* object in a MinIO bucket, and the three operations of the script on it  *)
(* (add_app, remove_app, list_apps), each a load, a local change and at    *)
(* most one put.                                                           *)
(*                                                                         *)
(* What is outside the script is modelled by its contract:                 *)
(*   - the object store keeps one object; get_object raises when the       *)
(*     object is absent or the network fails, put_object either replaces   *)
(*     the whole object or raises and leaves it as it was;                 *)
(*   - the wall clock datetime.now(timezone.utc) does not go backwards;    *)
(*   - json.dumps / json.loads carry a catalog of strings and booleans     *)
(*     unchanged, so the store holds the document as a value.              *)
(***************************************************************************)
EXTENDS Integers, Sequences, FiniteSets, TLC

\* ------------------------------------------------------------ bounds
NumIds == 2        \* distinct app ids the operator uses
MaxTicks == 2      \* the clock runs for MaxTicks half seconds
MaxOps == 3        \* invocations of the script in one run of the model
MaxListLen == 3    \* longest hand-written catalog given to list_apps

UsPerSec == 1000000   \* datetime resolution: microseconds in a second

Ids == 1..NumIds
\* The invocations of the script that may overlap: two, a first and a second.
Procs == {1, 2}
\* The sequential model runs one invocation at a time: the first process.
Operator == CHOOSE p \in Procs : \A q \in Procs : p <= q

\* The clock advances by nothing or by half a second between two reads.
ClockSteps == {0, 500000}
MaxNow == MaxTicks * 500000

\* The arguments --name --icon --description --path [--featured] of "add".
Args ==
  { [name |-> "Weather", icon |-> "sun", description |-> "Shows weather",
     path |-> "/apps/weather/index.html", featured |-> FALSE],
    [name |-> "Weather2", icon |-> "cloud", description |-> "Shows rain",
     path |-> "/apps/weather2/index.html", featured |-> TRUE] }

\* What can go wrong while the document is fetched and parsed.
Faults == {"none", "network", "malformed"}

\* ------------------------------------------------------------ strings
\* A string is a sequence of code points; str comparison is lexicographic.
RECURSIVE StrLess(_, _)
StrLess(a, b) ==
  IF b = <<>> THEN FALSE
  ELSE IF a = <<>> THEN TRUE
  ELSE IF Head(a) # Head(b) THEN Head(a) < Head(b)
  ELSE StrLess(Tail(a), Tail(b))

StrLeq(a, b) == ~StrLess(b, a)

RECURSIVE Pow10(_)
Pow10(k) == IF k = 0 THEN 1 ELSE 10 * Pow10(k - 1)

\* n as w decimal digits, zero padded ("%0wd").
Digits(n, w) == [i \in 1..w |-> 48 + ((n \div Pow10(w - i)) % 10)]

\* datetime.isoformat() of an aware UTC datetime, for instants of one minute:
\* "SS+00:00" when the microsecond is 0, "SS.ffffff+00:00" otherwise (the
\* leading "YYYY-MM-DDTHH:MM:" is the same for all of them and is left out).
\* 43 is "+", 46 ".", 48 "0", 58 ":".
isoformat(us) ==
  Digits(us \div UsPerSec, 2)
    \o (IF us % UsPerSec = 0 THEN <<>> ELSE <<46>> \o Digits(us % UsPerSec, 6))
    \o <<43, 48, 48, 58, 48, 48>>

\* The instant an isoformat string denotes, in microseconds.
RECURSIVE DigitsValue(_)
DigitsValue(s) ==
  IF s = <<>> THEN 0 ELSE 10 * DigitsValue(SubSeq(s, 1, Len(s) - 1)) + (s[Len(s)] - 48)

InstantOf(s) ==
  DigitsValue(SubSeq(s, 1, 2)) * UsPerSec
    + (IF s[3] = 46 THEN DigitsValue(SubSeq(s, 4, 9)) ELSE 0)

\* ------------------------------------------------------------ catalog
Range(s) == {s[i] : i \in DOMAIN s}
IdsOf(apps) == {apps[i].id : i \in DOMAIN apps}
Has(e, field) == field \in DOMAIN e

EmptyCatalog == [apps |-> <<>>]

\* client.get_object + read + json.loads: raises when the object is absent,
\* the network fails or the bytes are not JSON.
get_object(st, fault) ==
  IF ~st.exists \/ fault # "none"
  THEN [raised |-> TRUE, data |-> EmptyCatalog]
  ELSE [raised |-> FALSE, data |-> [apps |-> st.apps]]

\* A load that lets the storage error escape (no except clause).
load_catalog_raises(st, fault) == get_object(st, fault)

\* A load that answers a failed fetch with the stored document after all
\* (a retry that succeeds).
load_catalog_retries(st, fault) == [raised |-> FALSE, data |-> [apps |-> st.apps]]

\* load_catalog: any Exception of the fetch or the parse gives {"apps": []}.
load_catalog(st, fault) ==
  IF get_object(st, fault).raised
  THEN [raised |-> FALSE, data |-> EmptyCatalog]
  ELSE [raised |-> FALSE, data |-> get_object(st, fault).data]

\* A save that swallows the error of put_object and goes on.
save_catalog_swallows(st, catalog, putOk) ==
  [raised |-> FALSE,
   store |-> IF putOk THEN [exists |-> TRUE, apps |-> catalog.apps] ELSE st]

\* A save that keeps the stored entries whose id the new catalog lacks.
save_catalog_merges(st, catalog, putOk) ==
  [raised |-> ~putOk,
   store |-> IF putOk
             THEN [exists |-> TRUE,
                   apps |-> SelectSeq(st.apps, LAMBDA e : e.id \notin IdsOf(catalog.apps))
                              \o catalog.apps]
             ELSE st]

\* put_object replaces the whole object, or raises and changes nothing.
save_catalog(st, catalog, putOk) ==
  IF putOk
  THEN [raised |-> FALSE, store |-> [exists |-> TRUE, apps |-> catalog.apps]]
  ELSE [raised |-> TRUE, store |-> st]

\* The scan of add_app: the first index whose id matches, 0 for None.
existing_idx_none(apps, app_id) == 0

existing_idx(apps, app_id) ==
  IF app_id \in IdsOf(apps)
  THEN CHOOSE i \in DOMAIN apps :
         apps[i].id = app_id /\ \A j \in 1..(i - 1) : apps[j].id # app_id
  ELSE 0

\* The dict literal of add_app.
app_entry(app_id, a, t) ==
  [id |-> app_id, name |-> a.name, icon |-> a.icon,
   description |-> a.description, path |-> a.path, featured |-> a.featured,
   created_at |-> isoformat(t)]

\* An update that forgets to keep the first created_at.
updated_entry_fresh(old, app_id, a, t1, t2) ==
  app_entry(app_id, a, t1) @@ ("updated_at" :> isoformat(t2))

\* The entry written over an existing one: created_at kept when the old entry
\* has one, updated_at read from the clock.
updated_entry(old, app_id, a, t1, t2) ==
  [app_entry(app_id, a, t1) EXCEPT
     !.created_at = IF Has(old, "created_at") THEN old.created_at ELSE @]
    @@ ("updated_at" :> isoformat(t2))

\* A first insert that stamps updated_at as well.
new_entry_stamped(app_id, a, t1) ==
  app_entry(app_id, a, t1) @@ ("updated_at" :> isoformat(t1))

new_entry(app_id, a, t1) == app_entry(app_id, a, t1)

\* An upsert that starts the list over.
add_app_catalog_alone(catalog, app_id, a, t1, t2) ==
  [catalog |-> [apps |-> <<new_entry(app_id, a, t1)>>], action |-> "Added"]

\* add_app between load and save: the catalog to save and the word printed.
add_app_catalog(catalog, app_id, a, t1, t2) ==
  IF existing_idx(catalog.apps, app_id) # 0
  THEN [catalog |->
          [apps |-> [catalog.apps EXCEPT
             ![existing_idx(catalog.apps, app_id)] =
                updated_entry(catalog.apps[existing_idx(catalog.apps, app_id)],
                              app_id, a, t1, t2)]],
        action |-> "Updated"]
  ELSE [catalog |-> [apps |-> Append(catalog.apps, new_entry(app_id, a, t1))],
        action |-> "Added"]

\* The list comprehension of remove_app.
remove_filter(apps, app_id) == SelectSeq(apps, LAMBDA e : e.id # app_id)

\* A remove that saves whatever it found.
remove_needs_save_always(catalog, app_id) == TRUE

\* remove_app saves only when the filtered list is shorter.
remove_needs_save(catalog, app_id) ==
  Len(remove_filter(catalog.apps, app_id)) < Len(catalog.apps)

\* The sort key of list_apps: x.get("created_at", "").
sort_key(e) == IF Has(e, "created_at") THEN e.created_at ELSE <<>>

\* sorted(): stable, ascending by key.
InsertStable(e, s) ==
  LET n == Cardinality({i \in DOMAIN s : StrLeq(sort_key(s[i]), sort_key(e))})
      \* s is sorted, so the entries with a key <= e's key are its first n
  IN  SubSeq(s, 1, n) \o <<e>> \o SubSeq(s, n + 1, Len(s))

RECURSIVE SortStable(_)
SortStable(s) ==
  IF s = <<>> THEN <<>>
  ELSE InsertStable(s[Len(s)], SortStable(SubSeq(s, 1, Len(s) - 1)))

\* A listing in stored order.
sorted_unsorted(apps) == apps

sorted(apps) == SortStable(apps)

\* The rows list_apps prints, in order; none for an empty catalog.
list_rows(catalog) == IF catalog.apps = <<>> THEN <<>> ELSE sorted(catalog.apps)

\* ------------------------------------------------------------ state
VARIABLES
  store,     \* the object catalog.json: [exists, apps]
  now,       \* the UTC wall clock, in microseconds
  pc,        \* per invocation: "idle", "add_loaded", "remove_loaded", "done", "error"
  cmd,       \* per invocation: the command line [op, id, args]
  cat,       \* per invocation: the catalog load_catalog returned
  fault,     \* per invocation: what went wrong during its fetch
  putCalls,  \* per invocation: calls of put_object it made
  putResult, \* per invocation: how its put_object ended: "none", "ok", "failed"
  ret,       \* per invocation: "none", "true", "false" or "raised"
  printed,   \* per invocation: the line it printed, [word, id]
  out,       \* per invocation: the rows list_apps printed
  updated,   \* the ids some invocation has printed "Updated app" for
  before,    \* per invocation: the stored object when it started
  last,      \* per id: the arguments of the last add call made for it
  clobbers,  \* per invocation: the saves others made since its load
  writer,    \* the invocation whose put the store holds, 0 before any put
  ops        \* invocations started so far

vars == <<store, now, pc, cmd, cat, fault, putCalls, putResult, ret, printed, out,
          updated, before, last, clobbers, writer, ops>>

NoArgs == CHOOSE a \in Args : TRUE
NoCmd == [op |-> "none", id |-> 0, args |-> NoArgs]
NoLine == [word |-> "", id |-> 0]
Absent == [exists |-> FALSE, apps |-> <<>>]

InitLocal ==
  /\ now = 0
  /\ pc = [p \in Procs |-> "idle"]
  /\ cmd = [p \in Procs |-> NoCmd]
  /\ cat = [p \in Procs |-> EmptyCatalog]
  /\ fault = [p \in Procs |-> "none"]
  /\ putCalls = [p \in Procs |-> 0]
  /\ putResult = [p \in Procs |-> "none"]
  /\ ret = [p \in Procs |-> "none"]
  /\ printed = [p \in Procs |-> NoLine]
  /\ out = [p \in Procs |-> <<>>]
  /\ updated = {}
  /\ before = [p \in Procs |-> Absent]
  /\ last = <<>>
  /\ clobbers = [p \in Procs |-> {}]
  /\ writer = 0
  /\ ops = 0

\* The bucket holds no catalog yet, or an empty one.
Init ==
  /\ store \in {Absent, [exists |-> TRUE, apps |-> <<>>]}
  /\ InitLocal

Terminal(p) == pc[p] \in {"idle", "done", "error"}
Loaded(p) == pc[p] \in {"add_loaded", "remove_loaded"}

\* A new invocation p of the script: main() parses c and the operation's
\* first statement, load_catalog, runs.
Invoke(p, c, f, next) ==
  /\ Terminal(p)
  /\ ops < MaxOps
  /\ ops' = ops + 1
  /\ cmd' = [cmd EXCEPT ![p] = c]
  /\ fault' = [fault EXCEPT ![p] = f]
  /\ before' = [before EXCEPT ![p] = store]
  /\ cat' = [cat EXCEPT ![p] = load_catalog(store, f).data]
  /\ pc' = [pc EXCEPT ![p] = IF load_catalog(store, f).raised THEN "error" ELSE next]
  /\ ret' = [ret EXCEPT ![p] = IF load_catalog(store, f).raised THEN "raised" ELSE "none"]
  /\ putCalls' = [putCalls EXCEPT ![p] = 0]
  /\ putResult' = [putResult EXCEPT ![p] = "none"]
  /\ printed' = [printed EXCEPT ![p] = NoLine]
  /\ clobbers' = [clobbers EXCEPT ![p] = {}]

\* What a put by p does to the others that loaded and have not saved yet.
Clobber(p, written) ==
  [q \in Procs |->
     IF written /\ q # p /\ Loaded(q)
     THEN clobbers[q] \cup {[op |-> cmd[p].op, id |-> cmd[p].id]}
     ELSE clobbers[q]]

\* add_app, line 68: the load.
AddLoad(p, app_id, a, f) ==
  /\ Invoke(p, [op |-> "add", id |-> app_id, args |-> a], f, "add_loaded")
  /\ last' = (app_id :> a) @@ last
  /\ out' = [out EXCEPT ![p] = <<>>]
  /\ UNCHANGED <<store, now, updated, writer>>

\* add_app, lines 70-99: the scan, the entry (the clock is read once for
\* created_at and, on an update, once more for updated_at), the save and
\* the message.  d1 and d2 are the time that passes before each read.
AddSave(p, d1, d2, putOk) ==
  /\ pc[p] = "add_loaded"
  /\ LET c == cmd[p]
         updating == existing_idx(cat[p].apps, c.id) # 0
         t1 == now + d1
         t2 == IF updating THEN t1 + d2 ELSE t1
         r == add_app_catalog(cat[p], c.id, c.args, t1, t2)
         s == save_catalog(store, r.catalog, putOk)
         line == [word |-> r.action, id |-> c.id]
     IN  /\ t2 <= MaxNow
         /\ (~updating => d2 = 0)
         /\ now' = t2
         /\ store' = s.store
         /\ putCalls' = [putCalls EXCEPT ![p] = @ + 1]
         /\ putResult' = [putResult EXCEPT ![p] = IF putOk THEN "ok" ELSE "failed"]
         /\ writer' = IF putOk THEN p ELSE writer
         /\ pc' = [pc EXCEPT ![p] = IF s.raised THEN "error" ELSE "done"]
         /\ ret' = [ret EXCEPT ![p] = IF s.raised THEN "raised" ELSE "true"]
         /\ printed' = [printed EXCEPT ![p] = IF s.raised THEN NoLine ELSE line]
         /\ updated' = IF ~s.raised /\ r.action = "Updated"
                       THEN updated \cup {c.id} ELSE updated
         /\ clobbers' = Clobber(p, putOk)
  /\ UNCHANGED <<cmd, cat, fault, out, before, last, ops>>

\* remove_app, line 104: the load.
RemoveLoad(p, app_id, f) ==
  /\ Invoke(p, [op |-> "remove", id |-> app_id, args |-> NoArgs], f, "remove_loaded")
  /\ out' = [out EXCEPT ![p] = <<>>]
  /\ UNCHANGED <<store, now, updated, last, writer>>

\* remove_app, lines 106-115: the filter, then the save and True, or False.
RemoveFinish(p, putOk) ==
  /\ pc[p] = "remove_loaded"
  /\ LET c == cmd[p]
         kept == [apps |-> remove_filter(cat[p].apps, c.id)]
         saving == remove_needs_save(cat[p], c.id)
         s == IF saving THEN save_catalog(store, kept, putOk)
              ELSE [raised |-> FALSE, store |-> store]
         line == [word |-> IF saving THEN "Removed" ELSE "App not found", id |-> c.id]
     IN  /\ (~saving => putOk)
         /\ store' = s.store
         /\ putCalls' = [putCalls EXCEPT ![p] = IF saving THEN @ + 1 ELSE @]
         /\ putResult' = [putResult EXCEPT ![p] =
                            IF ~saving THEN "none" ELSE IF putOk THEN "ok" ELSE "failed"]
         /\ writer' = IF saving /\ putOk THEN p ELSE writer
         /\ pc' = [pc EXCEPT ![p] = IF s.raised THEN "error" ELSE "done"]
         /\ ret' = [ret EXCEPT ![p] =
                      IF s.raised THEN "raised" ELSE IF saving THEN "true" ELSE "false"]
         /\ printed' = [printed EXCEPT ![p] = IF s.raised THEN NoLine ELSE line]
         /\ clobbers' = Clobber(p, saving /\ putOk)
  /\ UNCHANGED <<now, updated, cmd, cat, fault, out, before, last, ops>>

\* list_apps: the load and the rows, in one step (it never writes).
ListApps(p, f) ==
  /\ Invoke(p, [op |-> "list", id |-> 0, args |-> NoArgs], f, "done")
  /\ out' = [out EXCEPT ![p] = list_rows(load_catalog(store, f).data)]
  /\ UNCHANGED <<store, now, updated, last, writer>>

\* ------------------------------------------------------------ specifications
\* One operator, one invocation at a time; fetches and puts may fail.
Next ==
  \/ \E i \in Ids, a \in Args, f \in Faults : AddLoad(Operator, i, a, f)
  \/ \E d1 \in ClockSteps, d2 \in ClockSteps, ok \in BOOLEAN : AddSave(Operator, d1, d2, ok)
  \/ \E i \in Ids, f \in Faults : RemoveLoad(Operator, i, f)
  \/ \E ok \in BOOLEAN : RemoveFinish(Operator, ok)
  \/ \E f \in Faults : ListApps(Operator, f)

Spec == Init /\ [][Next]_vars

\* Upserts and listings only, nothing fails.
NextUpsert ==
  \/ \E i \in Ids, a \in Args : AddLoad(Operator, i, a, "none")
  \/ \E d1 \in ClockSteps, d2 \in ClockSteps : AddSave(Operator, d1, d2, TRUE)
  \/ ListApps(Operator, "none")

SpecUpsert == Init /\ [][NextUpsert]_vars

\* Two invocations of add and remove at once, each a load and later a save,
\* interleaved in any order; nothing fails.  The race is explored within one
\* reading of the clock: which writer wins does not depend on the stamps.
NextRace ==
  \E p \in Procs :
    \/ \E i \in Ids, a \in Args : AddLoad(p, i, a, "none")
    \/ AddSave(p, 0, 0, TRUE)
    \/ \E i \in Ids : RemoveLoad(p, i, "none")
    \/ RemoveFinish(p, TRUE)

SpecRace == Init /\ [][NextRace]_vars

\* list_apps on any document a hand may have put in the bucket: entries in
\* any order, with or without created_at.
Instants == {k * 500000 : k \in 0..MaxTicks}

ListEntries ==
  LET bare(i) == [id |-> i, name |-> NoArgs.name, icon |-> NoArgs.icon,
                  description |-> NoArgs.description, path |-> NoArgs.path,
                  featured |-> NoArgs.featured]
  IN  {bare(i) : i \in Ids}
        \cup {app_entry(i, NoArgs, t) : i \in Ids, t \in Instants}

InitList ==
  /\ \E n \in 0..MaxListLen : \E apps \in [1..n -> ListEntries] :
        store = [exists |-> TRUE, apps |-> apps]
  /\ InitLocal

NextList == \E f \in Faults : ListApps(Operator, f)

SpecList == InitList /\ [][NextList]_vars

\* ------------------------------------------------------------ properties
DoneOp(p, op) == pc[p] = "done" /\ cmd[p].op = op
Unique(apps) == \A i, j \in DOMAIN apps : apps[i].id = apps[j].id => i = j
PosOf(apps, app_id) == CHOOSE i \in DOMAIN apps : apps[i].id = app_id
ArgsOf(e) ==
  [name |-> e.name, icon |-> e.icon, description |-> e.description,
   path |-> e.path, featured |-> e.featured]
NewFields == {"id", "name", "icon", "description", "path", "featured", "created_at"}
Without(apps, app_id) == SelectSeq(apps, LAMBDA e : e.id # app_id)
KeyOf(e) == IF "created_at" \in DOMAIN e THEN e.created_at ELSE <<>>
Occurrences(e, s) == Cardinality({i \in DOMAIN s : s[i] = e})
SameEntries(s, t) ==
  /\ Len(s) = Len(t)
  /\ \A e \in Range(s) \cup Range(t) : Occurrences(e, s) = Occurrences(e, t)

\* C1: from an empty or absent catalog, after any sequence of add_app and
\* remove_app calls no two entries of the stored apps list have the same id.
C1_UniqueIds == Unique(store.apps)

\* Two apps are stored and one of them has been upserted a second time.
C1_Witness == Len(store.apps) >= 2 /\ updated # {}

\* C2: an add_app for an id the loaded catalog holds saves a catalog of the
\* same length in which the entry of that id is at the same position, keeps
\* its created_at, carries an updated_at not earlier than its former
\* updated_at and created_at, has the call's arguments in its other fields,
\* and in which every other entry is as it was loaded.
C2_UpdateInPlace ==
  \A p \in Procs :
    (DoneOp(p, "add") /\ cmd[p].id \in IdsOf(cat[p].apps)) =>
      /\ Len(store.apps) = Len(cat[p].apps)
      /\ LET i == PosOf(cat[p].apps, cmd[p].id)
             old == cat[p].apps[i]
             new == store.apps[i]
         IN  /\ new.id = cmd[p].id
             /\ DOMAIN new = NewFields \cup {"updated_at"}
             /\ new.created_at = old.created_at
             /\ InstantOf(new.updated_at) >= InstantOf(old.created_at)
             /\ StrLeq(old.created_at, new.updated_at)
             /\ ("updated_at" \in DOMAIN old =>
                   /\ InstantOf(new.updated_at) >= InstantOf(old.updated_at)
                   /\ StrLeq(old.updated_at, new.updated_at))
             /\ ArgsOf(new) = cmd[p].args
             /\ \A j \in DOMAIN cat[p].apps : j # i => store.apps[j] = cat[p].apps[j]

\* The first of two stored apps has just been updated, later than it was
\* created and with other arguments.
C2_Witness ==
  \E p \in Procs :
    /\ DoneOp(p, "add")
    /\ Len(cat[p].apps) >= 2
    /\ cat[p].apps[1].id = cmd[p].id
    /\ ArgsOf(cat[p].apps[1]) # cmd[p].args
    /\ store.apps[1].updated_at # store.apps[1].created_at

\* C3: an add_app for an id the loaded catalog lacks saves the loaded list
\* with one entry appended, which has created_at and no updated_at; and a
\* stored entry has updated_at only if an upsert of its id was applied while
\* the id was present.
C3_AppendNew ==
  /\ \A p \in Procs :
       (DoneOp(p, "add") /\ cmd[p].id \notin IdsOf(cat[p].apps)) =>
         /\ Len(store.apps) = Len(cat[p].apps) + 1
         /\ SubSeq(store.apps, 1, Len(cat[p].apps)) = cat[p].apps
         /\ LET new == store.apps[Len(store.apps)]
            IN  /\ new.id = cmd[p].id
                /\ DOMAIN new = NewFields
                /\ ArgsOf(new) = cmd[p].args
  /\ \A i \in DOMAIN store.apps :
       "updated_at" \in DOMAIN store.apps[i] => store.apps[i].id \in updated

\* A new id has just been appended behind an entry that was updated before.
C3_Witness ==
  \E p \in Procs :
    /\ DoneOp(p, "add")
    /\ cmd[p].id \notin IdsOf(cat[p].apps)
    /\ Len(store.apps) >= 2
    /\ "updated_at" \in DOMAIN store.apps[1]

\* C4: after any sequence of add_app calls on an initially empty store, none
\* failing, the listing has exactly one row per id used, each with the name,
\* icon, description, path and featured of the last add_app made for its id.
ListingIsLastWritten(rows) ==
  /\ IdsOf(rows) = DOMAIN last
  /\ Len(rows) = Cardinality(DOMAIN last)
  /\ \A k \in DOMAIN rows : ArgsOf(rows[k]) = last[rows[k].id]

C4_LastWriteWins ==
  \A p \in Procs :
    /\ (\A q \in Procs : Terminal(q)) =>
         ListingIsLastWritten(list_rows(load_catalog(store, "none").data))
    /\ DoneOp(p, "list") => ListingIsLastWritten(out[p])

\* A listing of two apps has just been printed.
C4_Witness ==
  \E p \in Procs : DoneOp(p, "list") /\ Len(out[p]) >= 2 /\ Unique(out[p])

\* C5: remove_app of an id the loaded catalog holds writes the catalog with
\* that one entry left out, the others as they were and in their order, and
\* returns True; of an id it lacks it returns False, leaves the stored
\* document as it was and never calls put_object.
C5_Remove ==
  \A p \in Procs :
    /\ (DoneOp(p, "remove") /\ cmd[p].id \in IdsOf(cat[p].apps)) =>
         /\ ret[p] = "true"
         /\ putCalls[p] = 1
         /\ Len(store.apps) = Len(cat[p].apps) - 1
         /\ store.apps = Without(cat[p].apps, cmd[p].id)
    /\ (Terminal(p) /\ cmd[p].op = "remove" /\ cmd[p].id \notin IdsOf(cat[p].apps)) =>
         /\ pc[p] = "done"
         /\ ret[p] = "false"
         /\ putCalls[p] = 0
         /\ store = before[p]

\* One of two stored apps has just been removed.
C5_Witness ==
  \E p \in Procs :
    /\ DoneOp(p, "remove")
    /\ ret[p] = "true"
    /\ Len(cat[p].apps) >= 2
    /\ Len(store.apps) = Len(cat[p].apps) - 1

\* C6: list_apps prints every entry of the loaded catalog exactly once, in
\* ascending order of created_at whatever the stored order, the entries
\* without created_at first (their key is the empty string), and writes
\* nothing to the store.
C6_ListSorted ==
  \A p \in Procs :
    DoneOp(p, "list") =>
      /\ SameEntries(out[p], cat[p].apps)
      /\ \A i, j \in DOMAIN out[p] :
           i < j =>
             /\ StrLeq(KeyOf(out[p][i]), KeyOf(out[p][j]))
             /\ ("created_at" \notin DOMAIN out[p][j] => "created_at" \notin DOMAIN out[p][i])
             /\ ("created_at" \in DOMAIN out[p][i] =>
                   InstantOf(out[p][i].created_at) <= InstantOf(out[p][j].created_at))
      /\ store = before[p]
      /\ putCalls[p] = 0

\* A stored list that ends with an entry without created_at, after entries
\* stored latest first, has been listed.
C6_Witness ==
  \E p \in Procs :
    /\ DoneOp(p, "list")
    /\ Len(out[p]) >= 3
    /\ "created_at" \notin DOMAIN cat[p].apps[3]
    /\ "created_at" \in DOMAIN cat[p].apps[2]
    /\ "created_at" \in DOMAIN cat[p].apps[1]
    /\ StrLess(cat[p].apps[2].created_at, cat[p].apps[1].created_at)
    /\ out[p][1] = cat[p].apps[3]

\* C7: load_catalog never raises: when the object is missing, the network
\* fails or the content is malformed it returns {"apps": []}, and add,
\* remove and list go on as on an empty catalog and report no error.
C7_LoadNeverRaises ==
  \A p \in Procs :
    /\ ret[p] = "raised" => putResult[p] = "failed"
    /\ (cmd[p].op # "none" /\ (fault[p] # "none" \/ ~before[p].exists)) =>
         /\ cat[p] = EmptyCatalog
         /\ pc[p] = "error" => putResult[p] = "failed"
         /\ DoneOp(p, "add") =>
              printed[p].word = "Added" /\ Len(store.apps) = 1
         /\ DoneOp(p, "remove") => ret[p] = "false" /\ putCalls[p] = 0
         /\ DoneOp(p, "list") => out[p] = <<>>

\* A remove met malformed content in a bucket holding apps, and reported
\* "App not found".
C7_Witness ==
  \E p \in Procs :
    /\ DoneOp(p, "remove")
    /\ fault[p] = "malformed"
    /\ cmd[p].id \in IdsOf(before[p].apps)
    /\ ret[p] = "false"

\* C8: when put_object fails during add_app or remove_app the failure leaves
\* the operation (one put, no message of success, an error state) and the
\* stored document is what it was when the operation started.
C8_PutFailure ==
  \A p \in Procs :
    putResult[p] = "failed" =>
      /\ pc[p] = "error"
      /\ ret[p] = "raised"
      /\ printed[p] = NoLine
      /\ putCalls[p] = 1
      /\ store = before[p]

\* The put of an add_app on a catalog with apps in it has failed.
C8_Witness ==
  \E p \in Procs :
    /\ putResult[p] = "failed"
    /\ cmd[p].op = "add"
    /\ cat[p].apps # <<>>
    /\ store.apps = cat[p].apps

\* C9: when an invocation saves after another one, on a different id, has
\* saved since its load, the stored catalog is the result of the later save
\* alone: its own snapshot with its own change, the earlier writer's change
\* not in it.
C9_LaterSaveAlone ==
  \A q \in Procs :
    ( /\ pc[q] = "done"
      /\ writer = q
      /\ clobbers[q] # {}
      /\ \A c \in clobbers[q] : c.id # cmd[q].id ) =>
      /\ Without(store.apps, cmd[q].id) = Without(cat[q].apps, cmd[q].id)
      /\ cmd[q].op = "add" =>
           /\ cmd[q].id \in IdsOf(store.apps)
           /\ ArgsOf(store.apps[PosOf(store.apps, cmd[q].id)]) = cmd[q].args
      /\ cmd[q].op = "remove" => cmd[q].id \notin IdsOf(store.apps)
      /\ \A c \in clobbers[q] :
           /\ (c.op = "add" /\ c.id \notin IdsOf(cat[q].apps)) =>
                c.id \notin IdsOf(store.apps)
           /\ (c.op = "remove" /\ c.id \in IdsOf(cat[q].apps)) =>
                c.id \in IdsOf(store.apps)

\* A lost update: p printed "Added app" for an id, q saved after it from a
\* snapshot taken before, and the store has no entry of p's id.
C9_Witness ==
  \E p, q \in Procs :
    /\ p # q
    /\ DoneOp(p, "add") /\ ret[p] = "true" /\ printed[p].word = "Added"
    /\ pc[q] = "done" /\ writer = q
    /\ cmd[q].id # cmd[p].id
    /\ [op |-> "add", id |-> cmd[p].id] \in clobbers[q]
    /\ cmd[p].id \notin IdsOf(store.apps)

\* C10: when the bucket holds a catalog with apps, the fetch of an add_app
\* fails and its put succeeds, the stored document has exactly one entry,
\* the one just upserted, printed as "Added", with a fresh created_at and no
\* updated_at; every entry stored before is gone.
C10_TransientFetchLosesCatalog ==
  \A p \in Procs :
    ( /\ DoneOp(p, "add")
      /\ fault[p] # "none"
      /\ before[p].exists
      /\ before[p].apps # <<>> ) =>
      /\ Len(store.apps) = 1
      /\ store.apps[1].id = cmd[p].id
      /\ ArgsOf(store.apps[1]) = cmd[p].args
      /\ DOMAIN store.apps[1] = NewFields
      /\ store.apps[1].created_at = isoformat(now)
      /\ printed[p] = [word |-> "Added", id |-> cmd[p].id]
      /\ \A i \in DOMAIN before[p].apps :
           before[p].apps[i].id # cmd[p].id =>
             before[p].apps[i].id \notin IdsOf(store.apps)

\* Two apps were stored, the fetch of an add failed on the network, and one
\* app is left.
C10_Witness ==
  \E p \in Procs :
    /\ DoneOp(p, "add")
    /\ fault[p] = "network"
    /\ Len(before[p].apps) >= 2
    /\ Len(store.apps) = 1
====
